---- MODULE Spec2Model ----
(***************************************************************************)
(* Model of the two firmware images of the repository:                     *)
(*   - the actuator node (src/unnamed/part_000): four relays driven by     *)
(*     server-side RPC, with the bootstrap / reconnect loop;               *)
(*   - the sensor node (src/IOT_SENSORT/src/main.cpp): sensor polling and  *)
(*     threshold alarms.                                                   *)
(* Three specifications are defined:                                       *)
(*   Spec         the actuator firmware as wired: setup(), then loop()     *)
(*                forever, commands dispatched by tb.loop() to the         *)
(*                callbacks the firmware registered;                       *)
(*   HandlerSpec  the actuator node's callbacks invoked one by one after   *)
(*                setup() (every handler, registered or not);              *)
(*   SensorSpec   the sensor firmware: setup(), then loop() forever.       *)
(***************************************************************************)
EXTENDS Integers, Sequences, FiniteSets, TLC

\* ------------------------------------------------------------------ bounds

\* Largest number of consecutive "not associated" answers of WiFi.status().
MaxK == 2
\* Largest value of the payload field "enabled" that is tried (0, 1, then
\* malformed values 2..MaxEnabled).
MaxEnabled == 2
\* RPC_Subscribe may fail at most this many times in a run.
MaxSubscribeFailures == 1
\* Samples are drawn from threshold - SampleSpread .. threshold + SampleSpread.
SampleSpread == 1

\* ------------------------------------------------------- program constants

LIGHT_RELAY_KEY == "LIGHT_RELAY"
VMC_RELAY_KEY == "VMC_RELAY"
HEATER_RELAY_KEY == "HEATER_RELAY"
AC_RELAY_KEY == "AC_RELAY"
VERSION_KEY == "VERSION"

RPC_GET_LIGHT_SWITCH_METHOD == "get_light_switch"
RPC_SET_LIGHT_SWITCH_METHOD == "set_light_switch"
RPC_GET_VMC_SWITCH_METHOD == "get_vmc_switch"
RPC_SET_VMC_SWITCH_METHOD == "set_vmc_switch"
RPC_GET_HEATER_SWITCH_METHOD == "get_heater_switch"
RPC_SET_HEATER_SWITCH_METHOD == "set_heater_switch"
RPC_GET_AC_SWITCH_METHOD == "get_ac_switch"
RPC_SET_AC_SWITCH_METHOD == "set_ac_switch"

\* Sensor node thresholds: degrees Celsius, VOC index, tenths of a volt.
TEMP_HIGH == 20
TEMP_LOW == 0
VOC_HIGH == 50
BATTERY_LOW == 33

Actuators == {"LIGHT", "VMC", "HEATER", "AC"}

SetMethods ==
  { RPC_SET_LIGHT_SWITCH_METHOD, RPC_SET_VMC_SWITCH_METHOD,
    RPC_SET_HEATER_SWITCH_METHOD, RPC_SET_AC_SWITCH_METHOD }

GetMethods ==
  { RPC_GET_LIGHT_SWITCH_METHOD, RPC_GET_VMC_SWITCH_METHOD,
    RPC_GET_HEATER_SWITCH_METHOD, RPC_GET_AC_SWITCH_METHOD }

\* The RPC surface: the eight handlers the actuator node declares.
RpcSurface == SetMethods \cup GetMethods

\* The actuator a method is about.
ActuatorOf(m) ==
  CASE m \in {RPC_SET_LIGHT_SWITCH_METHOD, RPC_GET_LIGHT_SWITCH_METHOD} -> "LIGHT"
    [] m \in {RPC_SET_VMC_SWITCH_METHOD, RPC_GET_VMC_SWITCH_METHOD} -> "VMC"
    [] m \in {RPC_SET_HEATER_SWITCH_METHOD, RPC_GET_HEATER_SWITCH_METHOD} -> "HEATER"
    [] OTHER -> "AC"

\* The attribute key of an actuator.
RelayKey(a) ==
  CASE a = "LIGHT" -> LIGHT_RELAY_KEY
    [] a = "VMC" -> VMC_RELAY_KEY
    [] a = "HEATER" -> HEATER_RELAY_KEY
    [] OTHER -> AC_RELAY_KEY

\* digitalWrite(pin, status): the level a boolean drives the pin to.
Level(b) == IF b THEN "HIGH" ELSE "LOW"

\* The JSON text of a boolean attribute value.
BoolText(b) == IF b THEN "true" ELSE "false"

\* Values of the payload field "enabled" of a set-command.
EnabledValues == 0..MaxEnabled

\* Inbound command envelopes; a get-command carries no payload (enabled = 0).
Commands ==
  [method : SetMethods, enabled : EnabledValues]
    \cup [method : GetMethods, enabled : {0}]

NoCommand == [method |-> "none", enabled |-> 0]

\* Response envelopes.
NoResponse == [kind |-> "none", key |-> "", value |-> FALSE]
BoolResponse(b) == [kind |-> "bool", key |-> "", value |-> b]
ObjectResponse(k, b) == [kind |-> "object", key |-> k, value |-> b]
ErrorResponse == [kind |-> "error", key |-> "", value |-> FALSE]

\* One call of tb.sendAttributeData / tb.sendTelemetryData.
Publish(k, v, ok) == [key |-> k, value |-> v, ok |-> ok]

\* ---------------------------------------------------------------- state

VARIABLES
  \* actuator node
  pin,                 \* level last written to each relay pin
  STATUS,              \* LIGHT_STATUS, VMC_STATUS, HEATER_STATUS, AC_STATUS
  init_att_published,
  RPC_subscribed,
  registered,          \* methods the transport holds a callback for
  \* connectivity (either node)
  wifiDown,            \* "not associated" answers WiFi.status() still gives
  tbConnected,         \* tb.connected()
  \* control
  pc,                  \* position of the single thread
  caller,              \* who called InitWiFi: "setup" or "reconnect"
  \* transport
  rpc,                 \* command tb.loop() has read and is dispatching
  \* what the latest program step did
  lastOp,
  lastCmd,
  response,
  published,
  connects,
  ret,                 \* what the set operation the step ran returned, as text
  \* history
  watch,               \* the actuator whose set-commands the history follows
  lastSet,             \* the last set-command of watch: value, session it met
  \* the network step of the running iteration (cleared by the session step)
  polls,               \* "not associated" answers WiFi.status() gave
  waits,               \* delay(500) calls made
  lastPoll,            \* the latest answer of WiFi.status()
  nInitPublish,
  nInitPublishOk,      \* initial attribute publishes that went out
  nSubscribe,
  nSubscribeOk,
  \* sensor node
  temp_alarm,
  temp_low_alarm,
  voc_alarm,
  battery_alarm,
  last_temp,
  last_voc,
  last_battery,
  \* the sample step of the running iteration (cleared when it ends)
  prev_temp,           \* last_temp before the sample was taken
  emitted,             \* per alarm key, the values sent
  \* history of the sensor node
  lastSent             \* per alarm key: the last value sent was true

actuatorVars == <<pin, STATUS>>
flagVars == <<init_att_published, RPC_subscribed, registered>>
connVars == <<wifiDown, tbConnected>>
ctlVars == <<pc, caller>>
callVars == <<lastCmd, response, published, connects, ret>>
histVars == <<watch, lastSet>>
wifiObs == <<polls, waits, lastPoll>>
counters == <<nInitPublish, nInitPublishOk, nSubscribe, nSubscribeOk>>
sensorState ==
  <<temp_alarm, temp_low_alarm, voc_alarm, battery_alarm,
    last_temp, last_voc, last_battery>>
sensorVars == <<sensorState, prev_temp, emitted, lastSent>>

vars ==
  <<actuatorVars, flagVars, connVars, ctlVars, rpc, lastOp, callVars,
    histVars, wifiObs, counters, sensorVars>>

AlarmKeys == {"temp_alarm_high", "temp_alarm_low", "voc_alarm", "battery_alarm"}

NeverSet == [known |-> FALSE, v |-> FALSE, how |-> "none"]

\* The state at power-on, before setup(): globals zero-initialised, pins not
\* yet driven, nothing associated or connected.
PowerOn ==
  /\ pin = [a \in Actuators |-> "floating"]
  /\ STATUS = [a \in Actuators |-> FALSE]
  /\ init_att_published = FALSE
  /\ RPC_subscribed = FALSE
  /\ registered = {}
  /\ wifiDown \in 0..MaxK
  /\ tbConnected = FALSE
  /\ pc = "setup"
  /\ caller = "setup"
  /\ rpc = NoCommand
  /\ lastOp = "boot"
  /\ lastCmd = NoCommand
  /\ response = NoResponse
  /\ published = <<>>
  /\ connects = 0
  /\ ret = "none"
  /\ lastSet = NeverSet
  /\ polls = 0
  /\ waits = 0
  /\ lastPoll = "none"
  /\ nInitPublish = 0
  /\ nInitPublishOk = 0
  /\ nSubscribe = 0
  /\ nSubscribeOk = 0
  /\ temp_alarm = FALSE
  /\ temp_low_alarm = FALSE
  /\ voc_alarm = FALSE
  /\ battery_alarm = FALSE
  /\ last_temp = 0
  /\ last_voc = 0
  /\ last_battery = 0
  /\ prev_temp = 0
  /\ emitted = [k \in AlarmKeys |-> <<>>]
  /\ lastSent = [k \in AlarmKeys |-> FALSE]

Init == PowerOn /\ watch = "LIGHT"

\* A program step that runs no handler.
NoCall ==
  /\ lastCmd' = NoCommand
  /\ response' = NoResponse
  /\ published' = <<>>
  /\ connects' = 0
  /\ ret' = "none"


\* The firmware version string of version.h, as published under VERSION_KEY.
VERSION == "firmware-version"

\* How a set operation found the session: ghost label for lastSet.
How(conn) ==
  IF tbConnected THEN "connected"
  ELSE IF conn THEN "reconnected" ELSE "reconnect_failed"

\* ------------------------------------------------- actuator set operations
\* conn is the outcome of tb.connect() should it be called; a publish goes out
\* exactly when the session is up at that moment.

\* Variant of setLight: the state is stored only once it could be published.
setLight_storeWhenPublished(status, conn) ==
  /\ pin' = [pin EXCEPT !["LIGHT"] = Level(status)]
  /\ connects' = IF tbConnected THEN 0 ELSE 1
  /\ tbConnected' = IF tbConnected THEN TRUE ELSE conn
  /\ STATUS' = IF tbConnected' THEN [STATUS EXCEPT !["LIGHT"] = status] ELSE STATUS
  /\ published' =
       <<Publish(LIGHT_RELAY_KEY, BoolText(STATUS'["LIGHT"]), tbConnected')>>
  /\ ret' = BoolText(status)

\* Variant of setLight: tb.connect() is called whatever tb.connected() says.
setLight_alwaysConnects(status, conn) ==
  /\ pin' = [pin EXCEPT !["LIGHT"] = Level(status)]
  /\ STATUS' = [STATUS EXCEPT !["LIGHT"] = status]
  /\ connects' = 1
  /\ tbConnected' = conn
  /\ published' =
       <<Publish(LIGHT_RELAY_KEY, BoolText(STATUS'["LIGHT"]), tbConnected')>>
  /\ ret' = BoolText(status)

setLight(status, conn) ==
  /\ pin' = [pin EXCEPT !["LIGHT"] = Level(status)]
  /\ STATUS' = [STATUS EXCEPT !["LIGHT"] = status]
  /\ connects' = IF tbConnected THEN 0 ELSE 1
  /\ tbConnected' = IF tbConnected THEN TRUE ELSE conn
  /\ published' =
       <<Publish(LIGHT_RELAY_KEY, BoolText(STATUS'["LIGHT"]), tbConnected')>>
  /\ ret' = BoolText(status)

\* Variant of setVMC: the pin is written, VMC_STATUS is not.
setVMC_noStore(status, conn) ==
  /\ pin' = [pin EXCEPT !["VMC"] = Level(status)]
  /\ STATUS' = STATUS
  /\ connects' = IF tbConnected THEN 0 ELSE 1
  /\ tbConnected' = IF tbConnected THEN TRUE ELSE conn
  /\ published' =
       <<Publish(VMC_RELAY_KEY, BoolText(STATUS'["VMC"]), tbConnected')>>
  /\ ret' = BoolText(status)

\* Variant of setVMC: nothing is sent when the session could not be set up.
setVMC_publishesOnlyWhenConnected(status, conn) ==
  /\ pin' = [pin EXCEPT !["VMC"] = Level(status)]
  /\ STATUS' = [STATUS EXCEPT !["VMC"] = status]
  /\ connects' = IF tbConnected THEN 0 ELSE 1
  /\ tbConnected' = IF tbConnected THEN TRUE ELSE conn
  /\ published' =
       IF tbConnected'
       THEN <<Publish(VMC_RELAY_KEY, BoolText(status), TRUE)>>
       ELSE <<>>
  /\ ret' = BoolText(status)

\* Variant of setVMC: switching the VMC on switches the light off.
setVMC_interlocksLight(status, conn) ==
  /\ pin' = [pin EXCEPT !["VMC"] = Level(status),
                        !["LIGHT"] = IF status THEN "LOW" ELSE @]
  /\ STATUS' = [STATUS EXCEPT !["VMC"] = status,
                              !["LIGHT"] = IF status THEN FALSE ELSE @]
  /\ connects' = IF tbConnected THEN 0 ELSE 1
  /\ tbConnected' = IF tbConnected THEN TRUE ELSE conn
  /\ published' =
       <<Publish(VMC_RELAY_KEY, BoolText(STATUS'["VMC"]), tbConnected')>>
  /\ ret' = BoolText(status)

setVMC(status, conn) ==
  /\ pin' = [pin EXCEPT !["VMC"] = Level(status)]
  /\ STATUS' = [STATUS EXCEPT !["VMC"] = status]
  /\ connects' = IF tbConnected THEN 0 ELSE 1
  /\ tbConnected' = IF tbConnected THEN TRUE ELSE conn
  /\ published' =
       <<Publish(VMC_RELAY_KEY, BoolText(STATUS'["VMC"]), tbConnected')>>
  /\ ret' = BoolText(status)

\* Variant of setHeater: a failed reconnect undoes the pin write and the store.
setHeater_rollbackOnFailure(status, conn) ==
  /\ connects' = IF tbConnected THEN 0 ELSE 1
  /\ tbConnected' = IF tbConnected THEN TRUE ELSE conn
  /\ pin' = IF tbConnected' THEN [pin EXCEPT !["HEATER"] = Level(status)] ELSE pin
  /\ STATUS' = IF tbConnected' THEN [STATUS EXCEPT !["HEATER"] = status] ELSE STATUS
  /\ published' =
       <<Publish(HEATER_RELAY_KEY, BoolText(STATUS'["HEATER"]), tbConnected')>>
  /\ ret' = BoolText(status)

setHeater(status, conn) ==
  /\ pin' = [pin EXCEPT !["HEATER"] = Level(status)]
  /\ STATUS' = [STATUS EXCEPT !["HEATER"] = status]
  /\ connects' = IF tbConnected THEN 0 ELSE 1
  /\ tbConnected' = IF tbConnected THEN TRUE ELSE conn
  /\ published' =
       <<Publish(HEATER_RELAY_KEY, BoolText(STATUS'["HEATER"]), tbConnected')>>
  /\ ret' = BoolText(status)

\* Declared at part_000:77-79, not defined there: written from the contract of
\* the set operation (pin write, store, reconnect if needed, publish).
setAC(status, conn) ==
  /\ pin' = [pin EXCEPT !["AC"] = Level(status)]
  /\ STATUS' = [STATUS EXCEPT !["AC"] = status]
  /\ connects' = IF tbConnected THEN 0 ELSE 1
  /\ tbConnected' = IF tbConnected THEN TRUE ELSE conn
  /\ published' =
       <<Publish(AC_RELAY_KEY, BoolText(STATUS'["AC"]), tbConnected')>>
  /\ ret' = BoolText(status)

\* ------------------------------------------------------------ RPC handlers
\* rcvSwitchStatus is assigned only when enabled is 0 or 1; otherwise each read
\* of it yields an indeterminate boolean: uResp for response.set(), uArg for
\* the argument of the set operation.

processSwitchLightChange(enabled, uResp, uArg, conn) ==
  /\ response' =
       BoolResponse(IF enabled = 1 THEN TRUE ELSE IF enabled = 0 THEN FALSE ELSE uResp)
  /\ setLight(IF enabled = 1 THEN TRUE ELSE IF enabled = 0 THEN FALSE ELSE uArg,
              conn)

\* Variant of processSwitchVmcChange: 0 and 1 are decoded the wrong way round.
processSwitchVmcChange_swapped(enabled, uResp, uArg, conn) ==
  /\ response' =
       BoolResponse(IF enabled = 1 THEN FALSE ELSE IF enabled = 0 THEN TRUE ELSE uResp)
  /\ setVMC(IF enabled = 1 THEN FALSE ELSE IF enabled = 0 THEN TRUE ELSE uArg,
            conn)

processSwitchVmcChange(enabled, uResp, uArg, conn) ==
  /\ response' =
       BoolResponse(IF enabled = 1 THEN TRUE ELSE IF enabled = 0 THEN FALSE ELSE uResp)
  /\ setVMC(IF enabled = 1 THEN TRUE ELSE IF enabled = 0 THEN FALSE ELSE uArg,
            conn)

\* A handler that rejects its command: decode error, nothing applied.
Reject ==
  /\ response' = ErrorResponse
  /\ published' = <<>>
  /\ connects' = 0
  /\ ret' = "none"
  /\ UNCHANGED <<actuatorVars, tbConnected>>

\* Declared at part_000:47-48, not defined there: decode 0/1, apply through
\* setHeater, answer the applied value; any other value is a decode error.
processSwitchHeaterChange(enabled, uResp, uArg, conn) ==
  IF enabled \in {0, 1}
  THEN /\ response' = BoolResponse(enabled = 1)
       /\ setHeater(enabled = 1, conn)
  ELSE Reject

\* Declared at part_000:50-51, not defined there.
processSwitchACChange(enabled, uResp, uArg, conn) ==
  IF enabled \in {0, 1}
  THEN /\ response' = BoolResponse(enabled = 1)
       /\ setAC(enabled = 1, conn)
  ELSE Reject

\* A status inquiry: reads the stored state, touches nothing.
Inquiry(a, k) ==
  /\ response' = ObjectResponse(k, STATUS[a])
  /\ published' = <<>>
  /\ connects' = 0
  /\ ret' = "none"
  /\ UNCHANGED <<actuatorVars, tbConnected>>

\* Variant of getSwitchLight: the state read is also published.
getSwitchLight_publishes ==
  /\ response' = ObjectResponse(LIGHT_RELAY_KEY, IF STATUS["LIGHT"] THEN TRUE ELSE FALSE)
  /\ published' =
       <<Publish(LIGHT_RELAY_KEY, BoolText(STATUS["LIGHT"]), tbConnected)>>
  /\ connects' = 0
  /\ ret' = "none"
  /\ UNCHANGED <<actuatorVars, tbConnected>>

getSwitchLight ==
  /\ response' = ObjectResponse(LIGHT_RELAY_KEY, IF STATUS["LIGHT"] THEN TRUE ELSE FALSE)
  /\ published' = <<>>
  /\ connects' = 0
  /\ ret' = "none"
  /\ UNCHANGED <<actuatorVars, tbConnected>>

\* Declared at part_000:56-63, not defined there.
getSwitchVmc == Inquiry("VMC", VMC_RELAY_KEY)

getSwitchHeater == Inquiry("HEATER", HEATER_RELAY_KEY)

getSwitchAC == Inquiry("AC", AC_RELAY_KEY)

\* The callback of a method name, run on command cmd.
Handler(cmd, uResp, uArg, conn) ==
  CASE cmd.method = RPC_SET_LIGHT_SWITCH_METHOD ->
         processSwitchLightChange(cmd.enabled, uResp, uArg, conn)
    [] cmd.method = RPC_SET_VMC_SWITCH_METHOD ->
         processSwitchVmcChange(cmd.enabled, uResp, uArg, conn)
    [] cmd.method = RPC_SET_HEATER_SWITCH_METHOD ->
         processSwitchHeaterChange(cmd.enabled, uResp, uArg, conn)
    [] cmd.method = RPC_SET_AC_SWITCH_METHOD ->
         processSwitchACChange(cmd.enabled, uResp, uArg, conn)
    [] cmd.method = RPC_GET_LIGHT_SWITCH_METHOD -> getSwitchLight
    [] cmd.method = RPC_GET_VMC_SWITCH_METHOD -> getSwitchVmc
    [] cmd.method = RPC_GET_HEATER_SWITCH_METHOD -> getSwitchHeater
    [] OTHER -> getSwitchAC

\* Ghost: remember the last set-command of the watched actuator and the
\* session it met; after a malformed one there is no value to expect.
RecordSet(cmd, conn) ==
  /\ lastSet' =
       IF cmd.method \in SetMethods /\ ActuatorOf(cmd.method) = watch
       THEN IF cmd.enabled \in {0, 1}
            THEN [known |-> TRUE, v |-> (cmd.enabled = 1), how |-> How(conn)]
            ELSE NeverSet
       ELSE lastSet
  /\ UNCHANGED watch

\* Outcomes tb.connect() can have when a handler calls it.
ConnectOutcomes == IF tbConnected THEN {TRUE} ELSE BOOLEAN

\* Indeterminate values are only read for a malformed payload.
Indeterminate(cmd) ==
  IF cmd.method \in SetMethods /\ cmd.enabled \notin {0, 1} THEN BOOLEAN ELSE {FALSE}

\* One callback run to completion on cmd.
RunHandler(cmd) ==
  \E conn \in ConnectOutcomes :
    \E uResp \in Indeterminate(cmd), uArg \in Indeterminate(cmd) :
      /\ Handler(cmd, uResp, uArg, conn)
      /\ RecordSet(cmd, conn)
      /\ lastCmd' = cmd


\* ------------------------------------------------------ network association

\* InitWiFi(): one turn of "while (WiFi.status() != WL_CONNECTED) delay(500)".
InitWiFi ==
  /\ pc = "initwifi"
  /\ IF wifiDown > 0
     THEN /\ wifiDown' = wifiDown - 1
          /\ polls' = polls + 1
          /\ waits' = waits + 1
          /\ lastPoll' = "down"
          /\ pc' = pc
     ELSE /\ lastPoll' = "up"
          /\ pc' = IF caller = "setup" THEN "loop" ELSE "session"
          /\ UNCHANGED <<wifiDown, polls, waits>>
  /\ lastOp' = "InitWiFi"
  /\ NoCall
  /\ UNCHANGED <<actuatorVars, flagVars, tbConnected, caller, rpc, histVars,
                 counters, sensorVars>>

\* Variant of reconnect: returns true without calling InitWiFi().
reconnect_noWait ==
  /\ pc = "loop"
  /\ IF wifiDown = 0
     THEN /\ polls' = 0
          /\ lastPoll' = "up"
          /\ UNCHANGED wifiDown
     ELSE /\ wifiDown' = wifiDown - 1
          /\ polls' = 1
          /\ lastPoll' = "down"
  /\ pc' = "session"
  /\ waits' = 0
  /\ lastOp' = "reconnect"
  /\ NoCall
  /\ UNCHANGED <<actuatorVars, flagVars, tbConnected, caller, rpc, histVars,
                 counters, sensorVars>>

\* loop() entry: reconnect() polls WiFi.status() once and, when it is not
\* WL_CONNECTED, calls InitWiFi().
reconnect ==
  /\ pc = "loop"
  /\ IF wifiDown = 0
     THEN /\ polls' = 0
          /\ lastPoll' = "up"
          /\ pc' = "session"
          /\ UNCHANGED <<wifiDown, caller>>
     ELSE /\ wifiDown' = wifiDown - 1
          /\ polls' = 1
          /\ lastPoll' = "down"
          /\ pc' = "initwifi"
          /\ caller' = "reconnect"
  /\ waits' = 0
  /\ lastOp' = "reconnect"
  /\ NoCall
  /\ UNCHANGED <<actuatorVars, flagVars, tbConnected, rpc, histVars, counters,
                 sensorVars>>

\* ------------------------------------------------------- actuator node loop

\* setup(): pins to OUTPUT and LOW, then InitWiFi().
setup ==
  /\ pc = "setup"
  /\ pin' = [a \in Actuators |-> "LOW"]
  /\ pc' = "initwifi"
  /\ caller' = "setup"
  /\ polls' = 0
  /\ waits' = 0
  /\ lastPoll' = "none"
  /\ lastOp' = "setup"
  /\ NoCall
  /\ UNCHANGED <<STATUS, flagVars, connVars, rpc, histVars, counters, sensorVars>>

\* Variants of LoopSession: where loop() goes on after a failed connect
\* (failPc) and after a connect that succeeded (connectPc).
LoopSessionVariant(failPc, connectPc) ==
  /\ pc = "session"
  /\ IF tbConnected
     THEN /\ pc' = "initattr"
          /\ connects' = 0
          /\ UNCHANGED tbConnected
     ELSE \E ok \in BOOLEAN :
            /\ tbConnected' = ok
            /\ connects' = 1
            /\ pc' = IF ok THEN connectPc ELSE failPc
  /\ lastOp' = "LoopSession"
  /\ lastCmd' = NoCommand
  /\ response' = NoResponse
  /\ published' = <<>>
  /\ ret' = "none"
  /\ polls' = 0
  /\ waits' = 0
  /\ lastPoll' = "none"
  /\ UNCHANGED <<actuatorVars, flagVars, wifiDown, caller, rpc, histVars,
                 counters, sensorVars>>

\* Variant of LoopSession: a failed connect does not return from loop().
LoopSession_continuesOnFailure == LoopSessionVariant("initattr", "initattr")

\* Variant of LoopSession: loop() returns after the connect, failed or not.
LoopSession_returnsAfterConnect == LoopSessionVariant("loop", "loop")

\* Variant of LoopSession: a failed connect skips the initial publish only.
LoopSession_failureSkipsPublish == LoopSessionVariant("subscribe", "initattr")

\* loop(), "Check Thingsboard connection": one tb.connect() when disconnected;
\* a failed connect returns from loop().
LoopSession ==
  /\ pc = "session"
  /\ IF tbConnected
     THEN /\ pc' = "initattr"
          /\ connects' = 0
          /\ UNCHANGED tbConnected
     ELSE \E ok \in BOOLEAN :
            /\ tbConnected' = ok
            /\ connects' = 1
            /\ pc' = IF ok THEN "initattr" ELSE "loop"
  /\ lastOp' = "LoopSession"
  /\ lastCmd' = NoCommand
  /\ response' = NoResponse
  /\ published' = <<>>
  /\ ret' = "none"
  /\ polls' = 0
  /\ waits' = 0
  /\ lastPoll' = "none"
  /\ UNCHANGED <<actuatorVars, flagVars, wifiDown, caller, rpc, histVars,
                 counters, sensorVars>>

\* Variant of LoopInitAttributes: the flag is set only when both publishes
\* went out.
LoopInitAttributes_flagOnSuccess ==
  /\ pc = "initattr"
  /\ IF ~init_att_published
     THEN \E ok1 \in BOOLEAN, ok2 \in BOOLEAN :
            /\ published' =
                 << Publish(VERSION_KEY, VERSION, tbConnected /\ ok1),
                    Publish(LIGHT_RELAY_KEY, BoolText(STATUS["LIGHT"]),
                            tbConnected /\ ok2) >>
            /\ init_att_published' = (tbConnected /\ ok1 /\ ok2)
            /\ nInitPublish' = IF nInitPublish < 2 THEN nInitPublish + 1 ELSE nInitPublish
            /\ nInitPublishOk' = IF tbConnected /\ ok1 /\ ok2 THEN 2 ELSE 0
     ELSE /\ published' = <<>>
          /\ UNCHANGED <<init_att_published, nInitPublish, nInitPublishOk>>
  /\ pc' = "subscribe"
  /\ lastOp' = "LoopInitAttributes"
  /\ lastCmd' = NoCommand
  /\ response' = NoResponse
  /\ connects' = 0
  /\ ret' = "none"
  /\ UNCHANGED <<actuatorVars, RPC_subscribed, registered, connVars, caller,
                 rpc, histVars, wifiObs, nSubscribe, nSubscribeOk, sensorVars>>

\* loop(), "Send initial values".
LoopInitAttributes ==
  /\ pc = "initattr"
  /\ IF ~init_att_published
     THEN \E ok1 \in BOOLEAN, ok2 \in BOOLEAN :
            /\ published' =
                 << Publish(VERSION_KEY, VERSION, tbConnected /\ ok1),
                    Publish(LIGHT_RELAY_KEY, BoolText(STATUS["LIGHT"]),
                            tbConnected /\ ok2) >>
            /\ init_att_published' = TRUE
            /\ nInitPublish' = nInitPublish + 1
            /\ nInitPublishOk' =
                 nInitPublishOk + (IF tbConnected /\ ok1 THEN 1 ELSE 0)
                                + (IF tbConnected /\ ok2 THEN 1 ELSE 0)
     ELSE /\ published' = <<>>
          /\ UNCHANGED <<init_att_published, nInitPublish, nInitPublishOk>>
  /\ pc' = "subscribe"
  /\ lastOp' = "LoopInitAttributes"
  /\ lastCmd' = NoCommand
  /\ response' = NoResponse
  /\ connects' = 0
  /\ ret' = "none"
  /\ UNCHANGED <<actuatorVars, RPC_subscribed, registered, connVars, caller,
                 rpc, histVars, wifiObs, nSubscribe, nSubscribeOk, sensorVars>>

\* The callbacks array of loop(): the entries that name a method.
callbacks == {RPC_SET_LIGHT_SWITCH_METHOD, RPC_SET_VMC_SWITCH_METHOD}

\* Variant of LoopSubscribe: RPC_subscribed is not set after a success.
LoopSubscribe_flagNotSet ==
  /\ pc = "subscribe"
  /\ IF ~RPC_subscribed
     THEN \E ok \in BOOLEAN :
            /\ ~ok => nSubscribe - nSubscribeOk < MaxSubscribeFailures
            /\ nSubscribe' = nSubscribe + 1
            /\ IF ok
               THEN /\ registered' = registered \cup callbacks
                    /\ nSubscribeOk' = nSubscribeOk + 1
                    /\ pc' = "service"
                    /\ UNCHANGED RPC_subscribed
               ELSE /\ pc' = "loop"
                    /\ UNCHANGED <<registered, RPC_subscribed, nSubscribeOk>>
     ELSE /\ pc' = "service"
          /\ UNCHANGED <<registered, RPC_subscribed, nSubscribe, nSubscribeOk>>
  /\ lastOp' = "LoopSubscribe"
  /\ NoCall
  /\ UNCHANGED <<actuatorVars, init_att_published, connVars, caller, rpc,
                 histVars, wifiObs, nInitPublish, nInitPublishOk, sensorVars>>

\* Variant of LoopSubscribe: a failed RPC_Subscribe falls through to tb.loop().
LoopSubscribe_serviceOnFailure ==
  /\ pc = "subscribe"
  /\ IF ~RPC_subscribed
     THEN \E ok \in BOOLEAN :
            /\ ~ok => nSubscribe - nSubscribeOk < MaxSubscribeFailures
            /\ nSubscribe' = nSubscribe + 1
            /\ IF ok
               THEN /\ registered' = registered \cup callbacks
                    /\ RPC_subscribed' = TRUE
                    /\ nSubscribeOk' = nSubscribeOk + 1
                    /\ pc' = "service"
               ELSE /\ pc' = "service"
                    /\ UNCHANGED <<registered, RPC_subscribed, nSubscribeOk>>
     ELSE /\ pc' = "service"
          /\ UNCHANGED <<registered, RPC_subscribed, nSubscribe, nSubscribeOk>>
  /\ lastOp' = "LoopSubscribe"
  /\ NoCall
  /\ UNCHANGED <<actuatorVars, init_att_published, connVars, caller, rpc,
                 histVars, wifiObs, nInitPublish, nInitPublishOk, sensorVars>>

\* loop(), "Subscribing for RPC": one batch RPC_Subscribe; a failure returns
\* from loop() with the flag still false.
LoopSubscribe ==
  /\ pc = "subscribe"
  /\ IF ~RPC_subscribed
     THEN \E ok \in BOOLEAN :
            /\ ~ok => nSubscribe - nSubscribeOk < MaxSubscribeFailures
            /\ nSubscribe' = nSubscribe + 1
            /\ IF ok
               THEN /\ registered' = registered \cup callbacks
                    /\ RPC_subscribed' = TRUE
                    /\ nSubscribeOk' = nSubscribeOk + 1
                    /\ pc' = "service"
               ELSE /\ pc' = "loop"
                    /\ UNCHANGED <<registered, RPC_subscribed, nSubscribeOk>>
     ELSE /\ pc' = "service"
          /\ UNCHANGED <<registered, RPC_subscribed, nSubscribe, nSubscribeOk>>
  /\ lastOp' = "LoopSubscribe"
  /\ NoCall
  /\ UNCHANGED <<actuatorVars, init_att_published, connVars, caller, rpc,
                 histVars, wifiObs, nInitPublish, nInitPublishOk, sensorVars>>

\* tb.loop(): when the session is up, reads the command waiting at the
\* transport, if there is one (a command sent earlier waits there until now).
Pending == IF tbConnected THEN Commands \cup {NoCommand} ELSE {NoCommand}

LoopService ==
  /\ pc = "service"
  /\ \E cmd \in Pending :
       /\ rpc' = cmd
       /\ pc' = IF cmd # NoCommand THEN "dispatch" ELSE "loop"
  /\ lastOp' = "LoopService"
  /\ NoCall
  /\ UNCHANGED <<actuatorVars, flagVars, connVars, caller, histVars, wifiObs,
                 counters, sensorVars>>

\* tb.loop(), continued: the command read is handed to the callback
\* registered under its method name, if any; loop() then returns.
LoopDispatch ==
  /\ pc = "dispatch"
  /\ IF rpc.method \in registered
     THEN RunHandler(rpc)
     ELSE /\ NoCall
          /\ UNCHANGED <<actuatorVars, tbConnected, histVars>>
  /\ rpc' = NoCommand
  /\ pc' = "loop"
  /\ lastOp' = "dispatch"
  /\ UNCHANGED <<flagVars, wifiDown, caller, wifiObs, counters, sensorVars>>

\* ------------------------------------------------------------- environment

\* The access point is lost: the next k polls report "not associated". The
\* program reads WiFi.status() only in reconnect() and InitWiFi(): a loss at
\* any other moment is seen by the next reconnect(), as one at the loop entry
\* is, and a loss during InitWiFi's wait is a larger k.
NetDrop ==
  /\ pc = "loop"
  /\ wifiDown = 0
  /\ \E k \in 1..MaxK : wifiDown' = k
  /\ UNCHANGED <<lastOp, actuatorVars, flagVars, tbConnected, ctlVars, rpc, callVars,
                 histVars, wifiObs, counters, sensorVars>>

\* The session to the server is lost.
SessionDrop ==
  /\ pc \notin {"setup", "delay"}
  /\ tbConnected
  /\ tbConnected' = FALSE
  /\ UNCHANGED <<lastOp, actuatorVars, flagVars, wifiDown, ctlVars, rpc, callVars,
                 histVars, wifiObs, counters, sensorVars>>

Next ==
  \/ setup
  \/ InitWiFi
  \/ reconnect
  \/ LoopSession
  \/ LoopInitAttributes
  \/ LoopSubscribe
  \/ LoopService
  \/ LoopDispatch
  \/ NetDrop
  \/ SessionDrop

Spec == Init /\ [][Next]_vars

\* The steps of the program: setup(), then loop() called again and again by
\* the runtime.
LoopStep ==
  \/ setup
  \/ InitWiFi
  \/ reconnect
  \/ LoopSession
  \/ LoopInitAttributes
  \/ LoopSubscribe
  \/ LoopService
  \/ LoopDispatch

\* The actuator firmware with its scheduling: the single thread always takes
\* its next step.
LiveSpec == Spec /\ WF_vars(LoopStep)

\* ------------------------------------------------- handlers called directly

\* A callback invoked on a command envelope, between two loop iterations.
CallHandler ==
  /\ pc = "loop"
  /\ \E cmd \in Commands : RunHandler(cmd)
  /\ lastOp' = "call"
  /\ UNCHANGED <<flagVars, wifiDown, ctlVars, rpc, wifiObs, counters, sensorVars>>

HandlerNext ==
  \/ setup
  \/ InitWiFi
  \/ CallHandler
  \/ SessionDrop

HandlerInit == PowerOn /\ watch \in Actuators

HandlerSpec == HandlerInit /\ [][HandlerNext]_vars

\* A handler has just run on lastCmd.
HandlerRan == lastOp \in {"dispatch", "call"} /\ lastCmd # NoCommand


\* -------------------------------------------------------------- sensor node
\* Temperatures are whole degrees, the battery voltage is in tenths of a volt;
\* samples are ordered numbers (the comparisons of the code, nothing else, are
\* applied to them).

TempSamples ==
  ((TEMP_LOW - SampleSpread)..(TEMP_LOW + SampleSpread))
    \cup ((TEMP_HIGH - SampleSpread)..(TEMP_HIGH + SampleSpread))

VocSamples == (VOC_HIGH - SampleSpread)..(VOC_HIGH + SampleSpread)

BatterySamples == (BATTERY_LOW - SampleSpread)..(BATTERY_LOW + SampleSpread)

\* One alarm of checkAndSendAlarms: the new latch and the values sent under
\* the alarm's key, given the latch and the sample.

\* Variant of TempHighAlarm: the latch is not consulted before sending true.
TempHighAlarm_levelRepeated(latch, temp) ==
  IF temp > TEMP_HIGH
  THEN [latch |-> TRUE, sent |-> <<TRUE>>]
  ELSE IF latch /\ temp <= TEMP_HIGH
       THEN [latch |-> FALSE, sent |-> <<FALSE>>]
       ELSE [latch |-> latch, sent |-> <<>>]

TempHighAlarm(latch, temp) ==
  IF temp > TEMP_HIGH
  THEN IF ~latch
       THEN [latch |-> TRUE, sent |-> <<TRUE>>]
       ELSE [latch |-> latch, sent |-> <<>>]
  ELSE IF latch /\ temp <= TEMP_HIGH
       THEN [latch |-> FALSE, sent |-> <<FALSE>>]
       ELSE [latch |-> latch, sent |-> <<>>]

TempLowAlarm(latch, temp) ==
  IF temp < TEMP_LOW
  THEN IF ~latch
       THEN [latch |-> TRUE, sent |-> <<TRUE>>]
       ELSE [latch |-> latch, sent |-> <<>>]
  ELSE IF latch /\ temp >= TEMP_LOW
       THEN [latch |-> FALSE, sent |-> <<FALSE>>]
       ELSE [latch |-> latch, sent |-> <<>>]

VocAlarm(latch, voc) ==
  IF voc > VOC_HIGH
  THEN IF ~latch
       THEN [latch |-> TRUE, sent |-> <<TRUE>>]
       ELSE [latch |-> latch, sent |-> <<>>]
  ELSE IF latch /\ voc < VOC_HIGH
       THEN [latch |-> FALSE, sent |-> <<FALSE>>]
       ELSE [latch |-> latch, sent |-> <<>>]

\* Variant of BatteryAlarm: false is sent for every sample at or above the
\* threshold, latched or not.
BatteryAlarm_clearsUnlatched(latch, battery) ==
  IF battery < BATTERY_LOW
  THEN IF ~latch
       THEN [latch |-> TRUE, sent |-> <<TRUE>>]
       ELSE [latch |-> latch, sent |-> <<>>]
  ELSE [latch |-> FALSE, sent |-> <<FALSE>>]

BatteryAlarm(latch, battery) ==
  IF battery < BATTERY_LOW
  THEN IF ~latch
       THEN [latch |-> TRUE, sent |-> <<TRUE>>]
       ELSE [latch |-> latch, sent |-> <<>>]
  ELSE IF latch
       THEN [latch |-> FALSE, sent |-> <<FALSE>>]
       ELSE [latch |-> latch, sent |-> <<>>]

\* checkAndSendAlarms(temp, humidity, voc, lux, battery); humidity and lux
\* are not read by it.
checkAndSendAlarms(temp, voc, battery) ==
  /\ temp_alarm' = TempHighAlarm(temp_alarm, temp).latch
  /\ temp_low_alarm' = TempLowAlarm(temp_low_alarm, temp).latch
  /\ voc_alarm' = VocAlarm(voc_alarm, voc).latch
  /\ battery_alarm' = BatteryAlarm(battery_alarm, battery).latch
  /\ emitted' =
       [k \in AlarmKeys |->
          CASE k = "temp_alarm_high" -> TempHighAlarm(temp_alarm, temp).sent
            [] k = "temp_alarm_low" -> TempLowAlarm(temp_low_alarm, temp).sent
            [] k = "voc_alarm" -> VocAlarm(voc_alarm, voc).sent
            [] OTHER -> BatteryAlarm(battery_alarm, battery).sent]

\* setup() of the sensor node: sensor initialisation, then InitWiFi().
SensorSetup ==
  /\ pc = "setup"
  /\ pc' = "initwifi"
  /\ caller' = "setup"
  /\ polls' = 0
  /\ waits' = 0
  /\ lastPoll' = "none"
  /\ lastOp' = "SensorSetup"
  /\ NoCall
  /\ UNCHANGED <<actuatorVars, flagVars, connVars, rpc, histVars, counters,
                 sensorVars>>

\* Variant of SensorSession: a failed connect does not return from loop().
SensorSession_samplesOnFailure ==
  /\ pc = "session"
  /\ IF tbConnected
     THEN /\ pc' = "sample"
          /\ connects' = 0
          /\ UNCHANGED tbConnected
     ELSE \E ok \in BOOLEAN :
            /\ tbConnected' = ok
            /\ connects' = 1
            /\ pc' = "sample"
  /\ lastOp' = "SensorSession"
  /\ lastCmd' = NoCommand
  /\ response' = NoResponse
  /\ published' = <<>>
  /\ ret' = "none"
  /\ polls' = 0
  /\ waits' = 0
  /\ lastPoll' = "none"
  /\ UNCHANGED <<actuatorVars, flagVars, wifiDown, caller, rpc, histVars,
                 counters, sensorVars>>

\* loop() of the sensor node, "Check Thingsboard connection".
SensorSession ==
  /\ pc = "session"
  /\ IF tbConnected
     THEN /\ pc' = "sample"
          /\ connects' = 0
          /\ UNCHANGED tbConnected
     ELSE \E ok \in BOOLEAN :
            /\ tbConnected' = ok
            /\ connects' = 1
            /\ pc' = IF ok THEN "sample" ELSE "loop"
  /\ lastOp' = "SensorSession"
  /\ lastCmd' = NoCommand
  /\ response' = NoResponse
  /\ published' = <<>>
  /\ ret' = "none"
  /\ polls' = 0
  /\ waits' = 0
  /\ lastPoll' = "none"
  /\ UNCHANGED <<actuatorVars, flagVars, wifiDown, caller, rpc, histVars,
                 counters, sensorVars>>

\* loop() of the sensor node from "Lecture des capteurs" to the call of
\* checkAndSendAlarms: read the sensors, publish the readings, evaluate the
\* alarms. The VOC index is
\* measured only when the stabilisation period has passed and the raw signal
\* is valid (vocMeasured).
SensorSample ==
  /\ pc = "sample"
  /\ \E temp \in TempSamples, voc \in VocSamples, battery \in BatterySamples,
        vocMeasured \in BOOLEAN :
       /\ prev_temp' = last_temp
       /\ last_temp' = temp
       /\ last_voc' = IF vocMeasured THEN voc ELSE last_voc
       /\ last_battery' = battery
       /\ published' =
            <<Publish("temperature", last_temp', tbConnected)>>
              \o (IF vocMeasured
                  THEN <<Publish("voc", last_voc', tbConnected)>>
                  ELSE <<>>)
              \o <<Publish("battery", last_battery', tbConnected)>>
       /\ checkAndSendAlarms(last_temp', last_voc', last_battery')
  /\ lastSent' =
       [k \in AlarmKeys |->
          IF emitted'[k] = <<>> THEN lastSent[k]
          ELSE emitted'[k][Len(emitted'[k])]]
  /\ pc' = "delay"
  /\ lastOp' = "SensorSample"
  /\ lastCmd' = NoCommand
  /\ response' = NoResponse
  /\ connects' = 0
  /\ ret' = "none"
  /\ UNCHANGED <<actuatorVars, flagVars, connVars, caller, rpc, histVars,
                 wifiObs, counters>>

\* The end of loop() of the sensor node: tb.loop(), then delay(2000).
SensorDelay ==
  /\ pc = "delay"
  /\ pc' = "loop"
  /\ prev_temp' = last_temp
  /\ emitted' = [k \in AlarmKeys |-> <<>>]
  /\ lastOp' = "SensorDelay"
  /\ NoCall
  /\ UNCHANGED <<actuatorVars, flagVars, connVars, caller, rpc, histVars,
                 wifiObs, counters, sensorState, lastSent>>

SensorNext ==
  \/ SensorSetup
  \/ InitWiFi
  \/ reconnect
  \/ SensorSession
  \/ SensorSample
  \/ SensorDelay
  \/ NetDrop
  \/ SessionDrop

SensorSpec == Init /\ [][SensorNext]_vars


\* ================================================================== claims

\* ---- C1 (HandlerSpec)
\* C1: for every actuator A and boolean v, whatever session the set-command
\* met, a get_A that follows set_A(v) with no other set_A in between answers
\* v under A's relay key.
GetAfterSetReturnsValue ==
  ( /\ HandlerRan
    /\ lastCmd.method \in GetMethods
    /\ ActuatorOf(lastCmd.method) = watch
    /\ lastSet.known )
  => response = ObjectResponse(RelayKey(watch), lastSet.v)

\* A get_light_switch answered true after set_light_switch {enabled: 1} that
\* met a disconnected session whose reconnect failed.
GetAfterSetWitness ==
  /\ HandlerRan
  /\ lastCmd.method = RPC_GET_LIGHT_SWITCH_METHOD
  /\ watch = "LIGHT"
  /\ lastSet = [known |-> TRUE, v |-> TRUE, how |-> "reconnect_failed"]
  /\ response = ObjectResponse(LIGHT_RELAY_KEY, TRUE)

\* ---- C2 (HandlerSpec)
\* C2: a set-command with enabled 0 (1) writes the pin low (high), stores
\* false (true) and answers false (true): response, pin level and stored state
\* are the same boolean; a get-command answers the stored state under the
\* relay key, so after a set-command it answers that boolean.
SetCommandApplies ==
  /\ ( HandlerRan /\ lastCmd.method \in SetMethods /\ lastCmd.enabled \in {0, 1} )
     => LET a == ActuatorOf(lastCmd.method)
            b == (lastCmd.enabled = 1)
        IN /\ pin[a] = Level(b)
           /\ STATUS[a] = b
           /\ response = BoolResponse(b)
  /\ ( HandlerRan /\ lastCmd.method \in GetMethods )
     => LET a == ActuatorOf(lastCmd.method)
        IN /\ response = ObjectResponse(RelayKey(a), STATUS[a])
           /\ (a = watch /\ lastSet.known) => response.value = lastSet.v

\* set_vmc_switch {enabled: 1} answered true with the VMC pin high.
SetCommandWitness ==
  /\ HandlerRan
  /\ lastCmd = [method |-> RPC_SET_VMC_SWITCH_METHOD, enabled |-> 1]
  /\ response = BoolResponse(TRUE)
  /\ pin["VMC"] = "HIGH"
  /\ STATUS["VMC"]

\* ---- C3 (Spec)
\* C3: a set-command that reaches its handler with enabled neither 0 nor 1 is
\* rejected: the response is a decode error, and the pins, the stored states
\* and the published attributes are left alone.
MalformedSetIsRejected ==
  [][ ( /\ pc = "dispatch"
        /\ pc' = "loop"
        /\ rpc.method \in SetMethods \cap registered
        /\ rpc.enabled \notin {0, 1} )
      => ( /\ response' = ErrorResponse
           /\ pin' = pin
           /\ STATUS' = STATUS
           /\ published' = <<>> ) ]_vars

\* ---- C4 (Spec)
\* C4 as stated: the initial publish block and the subscription call are each
\* executed at most once in a boot.
OneShotCallsAtMostOnce == nInitPublish <= 1 /\ nSubscribe <= 1

\* C4 amended: the initial publish block is executed at most once and the
\* subscription call succeeds at most once; each flag is true exactly when
\* that has happened (so the subscription call is repeated only while no call
\* has succeeded); and once a flag is set, its step is not executed again.
OneShotStepsOncePerBoot ==
  /\ [] ( /\ nInitPublish <= 1
          /\ nSubscribeOk <= 1
          /\ init_att_published <=> (nInitPublish = 1)
          /\ RPC_subscribed <=> (nSubscribeOk = 1) )
  /\ [][ /\ init_att_published => nInitPublish' = nInitPublish
         /\ RPC_subscribed => nSubscribe' = nSubscribe ]_vars

\* Both flags set, one failed subscription behind, and the session step has
\* just reconnected a session that was lost.
OneShotWitness ==
  /\ init_att_published
  /\ RPC_subscribed
  /\ nInitPublish = 1
  /\ nSubscribe = 2
  /\ nSubscribeOk = 1
  /\ lastOp = "LoopSession"
  /\ connects = 1
  /\ tbConnected

\* ---- C5 (Spec)
\* C5 as stated: with K "not associated" answers, the loop makes exactly K
\* waits before the session step.
ExactlyKWaits == (pc = "session") => (waits = polls)

\* C5 amended: with K "not associated" answers the loop makes K - 1 waits
\* when K >= 1 (reconnect()'s own poll takes the first answer without
\* waiting) and none when K = 0, and it reaches the session step only on an
\* "associated" answer.
WaitsOneLessThanPolls ==
  /\ (pc = "session") =>
       /\ lastPoll = "up"
       /\ waits = IF polls = 0 THEN 0 ELSE polls - 1
  /\ (lastPoll = "down") => (pc = "initwifi")

\* The session step reached after two "not associated" answers and one wait.
WaitsWitness == pc = "session" /\ polls = 2 /\ waits = 1 /\ lastPoll = "up"

\* ---- C6 (HandlerSpec)
\* C6: a set-command for A with value v that meets a disconnected session
\* whose reconnect fails still completes: pin and stored state are v, the
\* response is v, and the one publish that was attempted failed.
SetSurvivesFailedReconnect ==
  ( /\ HandlerRan
    /\ lastCmd.method \in SetMethods
    /\ lastCmd.enabled \in {0, 1}
    /\ ActuatorOf(lastCmd.method) = watch
    /\ lastSet.how = "reconnect_failed" )
  => LET v == (lastCmd.enabled = 1)
     IN /\ pin[watch] = Level(v)
        /\ STATUS[watch] = v
        /\ response = BoolResponse(v)
        /\ connects = 1
        /\ published = <<Publish(RelayKey(watch), BoolText(v), FALSE)>>

\* set_heater_switch {enabled: 0} handled with the session down and the
\* reconnect failing: answered false, pin low.
FailedReconnectWitness ==
  /\ HandlerRan
  /\ watch = "HEATER"
  /\ lastCmd = [method |-> RPC_SET_HEATER_SWITCH_METHOD, enabled |-> 0]
  /\ lastSet.how = "reconnect_failed"
  /\ response = BoolResponse(FALSE)
  /\ pin["HEATER"] = "LOW"
  /\ published = <<Publish(HEATER_RELAY_KEY, "false", FALSE)>>

\* ---- C7 (Spec)
\* C7: once rpc_subscribed is true the transport holds a handler for each of
\* the eight methods of the RPC surface.
SubscribedRegistersSurface == RPC_subscribed => (registered = RpcSurface)

\* ---- C8 (HandlerSpec)
\* C8: from setup() on, the stored state of each actuator is the level last
\* written to its pin.
StoredStateMatchesPin ==
  (pc # "setup") => \A a \in Actuators : pin[a] = Level(STATUS[a])

\* After commands, with the session down: VMC on and high, heater off and low.
StoredStateWitness ==
  /\ HandlerRan
  /\ ~tbConnected
  /\ STATUS["VMC"] /\ pin["VMC"] = "HIGH"
  /\ STATUS["AC"] /\ pin["AC"] = "HIGH"
  /\ ~STATUS["HEATER"] /\ pin["HEATER"] = "LOW"

\* ---- C9 (Spec)
\* A step of the program (the environment's steps move neither pc nor
\* wifiDown downwards).
ProgramStep == pc' # pc \/ wifiDown' < wifiDown

\* C9 as stated: the session becomes connected only in the loop's session
\* step, and no dispatched handler makes a connect attempt.
OnlyLoopConnects ==
  [][ /\ (~tbConnected /\ tbConnected') => lastOp' = "LoopSession"
      /\ (ProgramStep /\ lastOp' = "dispatch") => connects' = 0 ]_vars

\* C9 amended: the association is consumed only by reconnect()/InitWiFi();
\* the session becomes connected only through a connect attempt, made by the
\* loop's session step or by the set operation of a dispatched set-command;
\* either makes the attempt only when it finds the session disconnected.
ConnectsOnlyWhenDisconnected ==
  [][ /\ (wifiDown' < wifiDown) => lastOp' \in {"reconnect", "InitWiFi"}
      /\ (~tbConnected /\ tbConnected') =>
           /\ connects' = 1
           /\ \/ lastOp' = "LoopSession"
              \/ lastOp' = "dispatch" /\ lastCmd'.method \in SetMethods
      /\ (ProgramStep /\ connects' # 0) =>
           /\ ~tbConnected
           /\ connects' = 1
           /\ \/ lastOp' = "LoopSession"
              \/ lastOp' = "dispatch" /\ lastCmd'.method \in SetMethods ]_vars

\* A dispatched set_light_switch found the session down and reconnected it.
HandlerReconnectWitness ==
  /\ lastOp = "dispatch"
  /\ lastCmd.method = RPC_SET_LIGHT_SWITCH_METHOD
  /\ connects = 1
  /\ tbConnected
  /\ published = <<Publish(LIGHT_RELAY_KEY, BoolText(STATUS["LIGHT"]), TRUE)>>

\* ---- C10 (SensorSpec)
\* C10: a sample above TEMP_HIGH after one not above it (or first) sends
\* exactly one temp_alarm_high = true; a further sample above it sends
\* nothing under that key; the first sample not above it afterwards sends
\* exactly one temp_alarm_high = false.
TempHighEdgeTriggered ==
  (pc = "delay") =>
    emitted["temp_alarm_high"] =
      IF last_temp > TEMP_HIGH /\ ~(prev_temp > TEMP_HIGH) THEN <<TRUE>>
      ELSE IF ~(last_temp > TEMP_HIGH) /\ prev_temp > TEMP_HIGH THEN <<FALSE>>
      ELSE <<>>

\* A sample at the threshold after a sample above it: one false was sent.
TempHighWitness ==
  /\ pc = "delay"
  /\ prev_temp > TEMP_HIGH
  /\ last_temp = TEMP_HIGH
  /\ emitted["temp_alarm_high"] = <<FALSE>>
  /\ ~temp_alarm

\* ---- C11 (Spec)
\* C11: the session step of an iteration that finds the session disconnected
\* makes exactly one connect attempt; when it fails, loop() returns at once:
\* the step publishes nothing, leaves both flags, the subscription table and
\* the counts of initial publishes and subscription calls as they were, and
\* hands nothing to the transport; the next iteration's session step is
\* reached without any wait when the network is associated, and attempts
\* again.
FailedConnectEndsIteration ==
  /\ [][ (pc = "session" /\ pc' # pc /\ ~tbConnected) =>
           /\ connects' = 1
           /\ ~tbConnected' =>
                /\ pc' = "loop"
                /\ published' = <<>>
                /\ UNCHANGED <<flagVars, counters, rpc, actuatorVars>>
                /\ lastCmd' = NoCommand ]_vars
  /\ [][ (pc = "session" /\ pc' # pc /\ tbConnected) => connects' = 0 ]_vars
  /\ [] ( (pc = "session" /\ polls = 0) => waits = 0 )

\* The session step has just failed to connect, with the initial attributes
\* published and the subscription still to be made: loop() is back at its
\* entry and the flags are as they were.
FailedConnectWitness ==
  /\ lastOp = "LoopSession"
  /\ connects = 1
  /\ ~tbConnected
  /\ pc = "loop"
  /\ init_att_published
  /\ ~RPC_subscribed
  /\ nSubscribe = 1

\* ---- C12 (Spec)
\* C12: the first iteration that reaches "Send initial values" publishes
\* VERSION and the light relay state and sets init_att_published, whatever
\* the publishes returned; the flag is never cleared; from then on no step
\* of the loop publishes under VERSION_KEY, and no step other than a
\* dispatched handler publishes anything, also when none of the initial
\* publishes went out.
InitialAttributesSentOnce ==
  /\ [][ (pc = "initattr" /\ pc' # pc /\ ~init_att_published) =>
           /\ init_att_published'
           /\ Len(published') = 2
           /\ published'[1].key = VERSION_KEY
           /\ published'[2].key = LIGHT_RELAY_KEY
           /\ published'[2].value = BoolText(STATUS["LIGHT"]) ]_vars
  /\ [][ init_att_published => init_att_published' ]_vars
  /\ [][ (init_att_published /\ ProgramStep) =>
           /\ \A i \in 1..Len(published') : published'[i].key # VERSION_KEY
           /\ (lastOp' # "dispatch") => published' = <<>>
           /\ UNCHANGED <<nInitPublish, nInitPublishOk>> ]_vars

\* A later iteration went through "Send initial values" with the session
\* connected and published nothing, although neither initial publish had
\* gone out.
InitialAttributesWitness ==
  /\ lastOp = "LoopInitAttributes"
  /\ published = <<>>
  /\ init_att_published
  /\ nInitPublish = 1
  /\ nInitPublishOk = 0
  /\ tbConnected
  /\ pc = "subscribe"

\* ---- C13 (Spec)
\* C13: a subscription step that finds RPC_subscribed false makes one batch
\* call; when the call fails the flag stays false, nothing is registered and
\* loop() returns without tb.loop(), so no command is read or dispatched;
\* when it succeeds the whole callbacks table is registered and the flag is
\* set. The flag becomes true in no other step, and while it is false no
\* callback is registered and the transport is not being serviced, so each
\* later subscription step makes the call again.
FailedSubscribeRetried ==
  /\ [][ (pc = "subscribe" /\ pc' # pc /\ ~RPC_subscribed) =>
           /\ nSubscribe' = nSubscribe + 1
           /\ rpc' = rpc
           /\ lastCmd' = NoCommand
           /\ IF RPC_subscribed'
              THEN /\ registered' = callbacks
                   /\ nSubscribeOk' = nSubscribeOk + 1
                   /\ pc' = "service"
              ELSE /\ registered' = {}
                   /\ nSubscribeOk' = nSubscribeOk
                   /\ pc' = "loop" ]_vars
  /\ [][ (~RPC_subscribed /\ RPC_subscribed') =>
           /\ pc = "subscribe"
           /\ lastOp' = "LoopSubscribe"
           /\ nSubscribeOk' = nSubscribeOk + 1 ]_vars
  /\ [] ( ~RPC_subscribed =>
            /\ registered = {}
            /\ nSubscribeOk = 0
            /\ pc \notin {"service", "dispatch"}
            /\ rpc = NoCommand )

\* The batch call has just succeeded at the second attempt: the table is
\* registered, the flag is set, and tb.loop() is next.
FailedSubscribeWitness ==
  /\ lastOp = "LoopSubscribe"
  /\ RPC_subscribed
  /\ registered = callbacks
  /\ nSubscribe = 2
  /\ nSubscribeOk = 1
  /\ pc = "service"

\* ---- C14 (LiveSpec)
\* The loop's tb.connect() succeeds; RPC_Subscribe succeeds.
SessionConnects == LoopSession /\ ~tbConnected /\ tbConnected'

SubscribeSucceeds == LoopSubscribe /\ ~RPC_subscribed /\ RPC_subscribed'

\* Both one-shot flags are set.
Steady == init_att_published /\ RPC_subscribed

\* C14: with the loop scheduled fairly, if the network is eventually
\* associated for good, a connect attempt of the loop that is made again and
\* again eventually succeeds and so does the subscription call, then the loop
\* reaches the steady state and stays in it, whatever network and session
\* losses happen on the way; and in the steady state every iteration whose
\* session step passes goes on, step by step, to tb.loop().
LoopReachesSteadyState ==
  /\ [][ (Steady /\ ProgramStep) =>
           /\ Steady'
           /\ (pc = "initattr") => pc' = "subscribe"
           /\ (pc = "subscribe") => pc' = "service"
           /\ (pc = "service") => lastOp' = "LoopService" ]_vars
  /\ ( /\ <>[](wifiDown = 0)
       /\ SF_vars(SessionConnects)
       /\ SF_vars(SubscribeSucceeds) )
     => /\ <>[]Steady
        /\ (Steady /\ pc = "initattr") ~> (pc = "service")
        /\ (pc = "service") ~> (lastOp = "LoopService")

\* The steady state after a failed subscription and a lost session: tb.loop()
\* has just serviced the transport with the session connected.
SteadyStateWitness ==
  /\ Steady
  /\ lastOp = "LoopService"
  /\ pc = "loop"
  /\ tbConnected
  /\ nSubscribe = 2
  /\ rpc = NoCommand

\* ---- C15 (HandlerSpec)
\* C15: a set operation on actuator A calls tb.connect() exactly when it finds
\* the session disconnected, and then once; after that it makes one call of
\* tb.sendAttributeData, under the relay key of A and with the value it has
\* just stored for A (the call goes out when the session is up by then); it
\* returns the value it was asked to apply.
SetOperationPublishesOnce ==
  /\ [] ( ( HandlerRan /\ lastCmd.method \in SetMethods /\ ret # "none" ) =>
            LET a == ActuatorOf(lastCmd.method)
            IN /\ connects \in {0, 1}
               /\ Len(published) = 1
               /\ published[1].key = RelayKey(a)
               /\ published[1].value = BoolText(STATUS[a])
               /\ ret = BoolText(STATUS[a])
               /\ (lastCmd.enabled \in {0, 1}) =>
                    ret = BoolText(lastCmd.enabled = 1) )
  /\ [] ( ( HandlerRan /\ lastCmd.method \in SetMethods
                       /\ lastCmd.enabled \in {0, 1} ) => ret # "none" )
  /\ [][ ( /\ lastOp' = "call"
           /\ lastCmd'.method \in SetMethods
           /\ ret' # "none"
           /\ ~(tbConnected /\ ~tbConnected') ) =>
         ( /\ connects' = IF tbConnected THEN 0 ELSE 1
           /\ published'[1].ok = tbConnected' ) ]_vars

\* setHeater(true) found the session down, reconnected it with one attempt,
\* published HEATER_RELAY = true and returned true.
SetOperationWitness ==
  /\ HandlerRan
  /\ lastCmd = [method |-> RPC_SET_HEATER_SWITCH_METHOD, enabled |-> 1]
  /\ connects = 1
  /\ tbConnected
  /\ published = <<Publish(HEATER_RELAY_KEY, "true", TRUE)>>
  /\ ret = "true"

\* ---- C16 (HandlerSpec)
\* C16: a get handler run on a get-command leaves the stored state and the
\* pin of the four actuators, both one-shot flags, the subscription table,
\* the network association and the session as they were, calls neither
\* tb.connect() nor a publish nor a set operation, and answers the stored
\* state.
GetChangesNothing ==
  /\ [][ ( /\ lastOp' = "call"
           /\ lastCmd'.method \in GetMethods
           /\ <<lastOp, lastCmd, response>>' # <<lastOp, lastCmd, response>> ) =>
         ( /\ UNCHANGED <<actuatorVars, flagVars, connVars>>
           /\ connects' = 0
           /\ published' = <<>>
           /\ ret' = "none"
           /\ response' =
                ObjectResponse(RelayKey(ActuatorOf(lastCmd'.method)),
                               STATUS[ActuatorOf(lastCmd'.method)]) ) ]_vars
  /\ [] ( ( HandlerRan /\ lastCmd.method \in GetMethods ) =>
            ( connects = 0 /\ published = <<>> /\ ret = "none" ) )

\* get_light_switch answered true with the light on and the session down:
\* no connect attempt, nothing published, the session still down.
GetChangesNothingWitness ==
  /\ HandlerRan
  /\ lastCmd.method = RPC_GET_LIGHT_SWITCH_METHOD
  /\ response = ObjectResponse(LIGHT_RELAY_KEY, TRUE)
  /\ STATUS["LIGHT"]
  /\ pin["LIGHT"] = "HIGH"
  /\ ~tbConnected
  /\ connects = 0
  /\ published = <<>>

\* ---- C17 (Spec)
\* C17: setup() drives the four pins low and leaves the stored states at
\* their boot value; from then on the stored state or the pin of an actuator
\* A changes only in the step that dispatches a set-command for A to its
\* handler: the network step, the session step, the initial publish, the
\* subscription and the read of tb.loop() change no actuator state, and the
\* dispatch of a set-command for A changes neither the stored state nor the
\* pin of another actuator.
ActuatorChangesOnlyBySet ==
  /\ [][ \A a \in Actuators :
           (pin'[a] # pin[a] \/ STATUS'[a] # STATUS[a]) =>
             \/ /\ pc = "setup"
                /\ STATUS' = STATUS
                /\ pin'[a] = "LOW"
             \/ /\ pc = "dispatch"
                /\ lastOp' = "dispatch"
                /\ lastCmd'.method \in SetMethods
                /\ ActuatorOf(lastCmd'.method) = a ]_vars
  /\ [][ (pc \in {"loop", "initwifi", "session", "initattr", "subscribe",
                  "service"}) => UNCHANGED actuatorVars ]_vars
  /\ [] ( (pc = "setup") => \A a \in Actuators : ~STATUS[a] )

\* set_vmc_switch {enabled: 1} has just been dispatched with the light on:
\* the light is still on, heater and AC are still off.
ActuatorFrameWitness ==
  /\ lastOp = "dispatch"
  /\ lastCmd = [method |-> RPC_SET_VMC_SWITCH_METHOD, enabled |-> 1]
  /\ STATUS = [a \in Actuators |-> a \in {"VMC", "LIGHT"}]
  /\ pin = [a \in Actuators |-> IF a \in {"VMC", "LIGHT"} THEN "HIGH" ELSE "LOW"]

\* ---- C18 (SensorSpec)
\* C18: for each alarm key, a sample sends at most one value under the key,
\* and a value sent is the opposite of the last value sent under the key
\* before (true when nothing was sent before): the values sent under a key
\* are true, false, true, ... Nothing is sent under an alarm key outside the
\* evaluation of a sample.
AlarmValuesAlternate ==
  /\ [][ (pc = "sample" /\ pc' = "delay") =>
           \A k \in AlarmKeys :
             /\ Len(emitted'[k]) <= 1
             /\ (emitted'[k] # <<>>) => emitted'[k][1] = ~lastSent[k]
             /\ lastSent'[k] =
                  IF emitted'[k] # <<>> THEN ~lastSent[k] ELSE lastSent[k] ]_vars
  /\ [][ ~(pc = "sample" /\ pc' = "delay") =>
           /\ lastSent' = lastSent
           /\ \A k \in AlarmKeys : emitted'[k] = <<>> \/ emitted'[k] = emitted[k] ]_vars

\* One sample sent battery_alarm = false and temp_alarm_low = true, and sent
\* nothing under voc_alarm, whose last value sent is true.
AlarmValuesWitness ==
  /\ pc = "delay"
  /\ emitted["battery_alarm"] = <<FALSE>>
  /\ emitted["temp_alarm_low"] = <<TRUE>>
  /\ emitted["voc_alarm"] = <<>>
  /\ lastSent["voc_alarm"]
  /\ ~lastSent["battery_alarm"]

\* ---- C19 (SensorSpec)
\* C19: after each call of checkAndSendAlarms every alarm is active exactly
\* when the sample just evaluated is beyond its threshold, a sample equal to
\* the threshold counting as not beyond it.
AlarmTracksSample ==
  (pc = "delay") =>
    /\ temp_alarm <=> (last_temp > TEMP_HIGH)
    /\ temp_low_alarm <=> (last_temp < TEMP_LOW)
    /\ voc_alarm <=> (last_voc > VOC_HIGH)
    /\ battery_alarm <=> (last_battery < BATTERY_LOW)

\* ---- C20 (Spec)
\* C20: RPC_subscribed implies init_att_published; loop() goes through its
\* steps in order (session, initial publish, subscription, tb.loop(),
\* dispatch), past the session step only with the session connected at that
\* moment; tb.loop() is reached, and a handler run, only with both flags
\* true; so while RPC_subscribed is false every stored state is false and no
\* pin is high.
StartupOrderGatesCommands ==
  /\ [] ( RPC_subscribed => init_att_published )
  /\ [] ( (pc \in {"service", "dispatch"}) =>
            (init_att_published /\ RPC_subscribed) )
  /\ [] ( (pc = "subscribe") => init_att_published )
  /\ [] ( ~RPC_subscribed =>
            \A a \in Actuators : ~STATUS[a] /\ pin[a] # "HIGH" )
  /\ [][ (pc' # pc) =>
           /\ (pc' = "initattr") => (pc = "session" /\ tbConnected')
           /\ (pc' = "subscribe") => (pc = "initattr")
           /\ (pc' = "service") => (pc = "subscribe")
           /\ (pc' = "dispatch") => (pc = "service" /\ tbConnected) ]_vars
  /\ [][ (lastCmd' # NoCommand /\ lastCmd' # lastCmd) =>
           (pc = "dispatch" /\ init_att_published /\ RPC_subscribed) ]_vars

\* The first subscription call succeeded and set_light_switch {enabled: 1}
\* has been dispatched: the light is on, with both flags true.
StartupOrderWitness ==
  /\ RPC_subscribed
  /\ init_att_published
  /\ nSubscribe = 1
  /\ lastOp = "dispatch"
  /\ lastCmd = [method |-> RPC_SET_LIGHT_SWITCH_METHOD, enabled |-> 1]
  /\ STATUS["LIGHT"]
  /\ connects = 0
  /\ pc = "loop"

\* ---- C21 (SensorSpec)
\* C21: in the sensor node, the session step of an iteration that finds the
\* session disconnected makes one connect attempt; when it fails, loop()
\* returns before any sensor is read: nothing is published, no alarm value
\* is sent, and the alarm latches and the last measurements are as they
\* were. The sample step is entered only from a session step that leaves the
\* session connected, and only the sample step publishes readings, sends
\* alarm values or writes the latches and the last measurements.
SensorFailedConnectSkipsSample ==
  /\ [][ (pc = "session" /\ pc' # pc /\ ~tbConnected) =>
           /\ connects' = 1
           /\ ~tbConnected' =>
                /\ pc' = "loop"
                /\ published' = <<>>
                /\ UNCHANGED <<sensorState, prev_temp, emitted, lastSent>> ]_vars
  /\ [][ (pc' # pc /\ pc' = "sample") => (pc = "session" /\ tbConnected') ]_vars
  /\ [][ (pc # "sample") =>
           /\ UNCHANGED <<sensorState, lastSent>>
           /\ \A k \in AlarmKeys : emitted'[k] = <<>> \/ emitted'[k] = emitted[k]
           /\ published' = <<>> \/ published' = published ]_vars
  /\ [] ( (pc # "delay") => emitted = [k \in AlarmKeys |-> <<>>] )

\* The session was lost while the high-temperature and VOC alarms were
\* raised, and the connect attempt of the next iteration has just failed:
\* loop() is back at its entry, the latches and the last readings are kept.
SensorFailedConnectWitness ==
  /\ lastOp = "SensorSession"
  /\ connects = 1
  /\ ~tbConnected
  /\ pc = "loop"
  /\ temp_alarm
  /\ voc_alarm
  /\ last_temp > TEMP_HIGH
  /\ last_voc > VOC_HIGH
  /\ published = <<>>

====
